---- MODULE Spec2Model ----
(***************************************************************************)
(* Slash-command menu of the docground live markdown editor.               *)
(*                                                                         *)
(* The model covers the React state of LiveMarkdownEditor (editor.tsx),    *)
(* the state of the mounted SlashCommandMenu (slashCommandMenu.tsx), the   *)
(* input rule that activates the menu (slashCommandInputRule.ts) and the   *)
(* command registry (slashCommand.config.ts).                              *)
(*                                                                         *)
(* Strings are sequences of one-character strings, so that toLowerCase,    *)
(* includes, startsWith and the regular expression are computed, not       *)
(* assumed.  null and undefined are the empty sequence; a non-null object  *)
(* x held in a nullable field is the one-element sequence <<x>>.           *)
(*                                                                         *)
(* One action is one DOM event: the handler, the batched React state       *)
(* update, the re-render and every effect it triggers, up to the point     *)
(* where React has nothing left to do (the settled state).                 *)
(***************************************************************************)
EXTENDS Integers, Sequences, FiniteSets, TLC

VARIABLES
  registry,             \* the command registry the filter runs over
  doc,                  \* the document: its text blocks, [type, text] each;
                        \* the caret is at the end of the last block
  isSlashMenuOpen,      \* editor.tsx useState
  slashMenuQuery,       \* editor.tsx useState
  slashMenuRange,       \* editor.tsx useState, null or <<[from, to]>>
  slashMenuPosition,    \* editor.tsx useState, null or <<[top, left, height]>>
  slashMenuItems,       \* editor.tsx useState
  isSlashMenuOpenRef,   \* editor.tsx useRef, written by an effect
  selectedIndex,        \* slashCommandMenu.tsx useState (0-based, as in the code)
  prevItemsLengthRef,   \* slashCommandMenu.tsx useRef
  pendingFocus,         \* setTimeout(focus, 0) callbacks not yet run
  listeners,            \* capture-phase listeners registered on document:
                        \* [keydown, mousedown], the number of each
  lastEvent,            \* the last DOM event handled, with what it saw
  client                \* the GitHub API client and the request it runs

vars == << registry, doc, isSlashMenuOpen, slashMenuQuery,
           slashMenuRange, slashMenuPosition, slashMenuItems,
           isSlashMenuOpenRef, selectedIndex, prevItemsLengthRef,
           pendingFocus, listeners, lastEvent, client >>

null == << >>

(***************************************************************************)
(* Bounds of the model.                                                    *)
(***************************************************************************)
MaxDocLen == 2

MaxBlocks == 2

MaxPendingFocus == 2

MaxRegistryLen == 2

(***************************************************************************)
(* Characters and the string functions the code uses.                      *)
(***************************************************************************)
UpperCase ==
  << "A", "B", "C", "D", "E", "F", "G", "H", "I", "J", "K", "L", "M",
     "N", "O", "P", "Q", "R", "S", "T", "U", "V", "W", "X", "Y", "Z" >>

LowerCase ==
  << "a", "b", "c", "d", "e", "f", "g", "h", "i", "j", "k", "l", "m",
     "n", "o", "p", "q", "r", "s", "t", "u", "v", "w", "x", "y", "z" >>

Digits == { "0", "1", "2", "3", "4", "5", "6", "7", "8", "9" }

Range(s) == { s[i] : i \in DOMAIN s }

UpperToLower ==
  [c \in Range(UpperCase) |->
     LowerCase[CHOOSE i \in DOMAIN UpperCase : UpperCase[i] = c]]

charToLowerCase(c) ==
  IF c \in DOMAIN UpperToLower THEN UpperToLower[c] ELSE c

\* String.prototype.toLowerCase
toLowerCase(s) == [i \in DOMAIN s |-> charToLowerCase(s[i])]

\* s.startsWith(p)
startsWith(s, p) ==
  /\ Len(p) <= Len(s)
  /\ \A i \in 1..Len(p) : s[i] = p[i]

\* s.includes(p): p occurs in s at some offset; "" occurs in every string
includes(s, p) ==
  \E off \in 0..(Len(s) - Len(p)) :
    \A i \in 1..Len(p) : s[off + i] = p[i]

\* \w of the regular expression: [A-Za-z0-9_]
WordChars == Range(UpperCase) \cup Range(LowerCase) \cup Digits \cup {"_"}

IsWordChar(c) == c \in WordChars

\* \s of the regular expression, for the characters of the model; "nbsp"
\* stands for the one character U+00A0
IsWhitespace(c) == c \in {" ", "\t", "\n", "nbsp"}

(***************************************************************************)
(* The command registry, slashCommand.config.ts.  A descriptor without     *)
(* aliases has aliases = << >>: item.aliases?.some(...) is then undefined, *)
(* which is falsy, exactly as some(...) over an empty array.               *)
(***************************************************************************)
slashCommands ==
  << [id |-> "heading1",
      title |-> <<"H", "e", "a", "d", "i", "n", "g", " ", "1">>,
      aliases |-> <<<<"h", "1">>>>],
     [id |-> "heading2",
      title |-> <<"H", "e", "a", "d", "i", "n", "g", " ", "2">>,
      aliases |-> <<<<"h", "2">>>>],
     [id |-> "heading3",
      title |-> <<"H", "e", "a", "d", "i", "n", "g", " ", "3">>,
      aliases |-> <<<<"h", "3">>>>],
     [id |-> "bulletList",
      title |-> <<"B", "u", "l", "l", "e", "t", "e", "d", " ", "l", "i", "s", "t">>,
      aliases |-> <<<<"u", "l">>, <<"l", "i", "s", "t">>>>],
     [id |-> "numberedList",
      title |-> <<"N", "u", "m", "b", "e", "r", "e", "d", " ", "l", "i", "s", "t">>,
      aliases |-> <<<<"o", "l">>>>],
     [id |-> "taskList",
      title |-> <<"T", "a", "s", "k", " ", "l", "i", "s", "t">>,
      aliases |-> <<<<"t", "o", "d", "o">>, <<"t", "a", "s", "k">>>>],
     [id |-> "blockquote",
      title |-> <<"B", "l", "o", "c", "k", "q", "u", "o", "t", "e">>,
      aliases |-> <<<<"q", "u", "o", "t", "e">>>>],
     [id |-> "codeBlock",
      title |-> <<"C", "o", "d", "e", " ", "b", "l", "o", "c", "k">>,
      aliases |-> <<<<"c", "o", "d", "e">>>>],
     [id |-> "horizontalRule",
      title |-> <<"H", "o", "r", "i", "z", "o", "n", "t", "a", "l", " ", "r", "u", "l", "e">>,
      aliases |-> <<<<"h", "r">>, <<"d", "i", "v", "i", "d", "e", "r">>>>],
     [id |-> "table",
      title |-> <<"T", "a", "b", "l", "e">>,
      aliases |-> <<<<"t", "b", "l">>>>],
     [id |-> "paragraph",
      title |-> <<"P", "a", "r", "a", "g", "r", "a", "p", "h">>,
      aliases |-> <<<<"p">>, <<"t", "e", "x", "t">>>>] >>

(***************************************************************************)
(* The filter of openSlashMenu and of the re-filter effect.                *)
(***************************************************************************)
\* itemMatches with the aliases forgotten
itemMatchesTitleOnly(item, query) ==
  includes(toLowerCase(item.title), toLowerCase(query))

\* the predicate given to Array.prototype.filter
itemMatches(item, query) ==
  \/ includes(toLowerCase(item.title), toLowerCase(query))
  \/ \E a \in DOMAIN item.aliases :
       includes(toLowerCase(item.aliases[a]), toLowerCase(query))

\* sliceFirst written as slice(1, n)
sliceFromSecond(s, n) == SubSeq(s, 2, IF Len(s) < n THEN Len(s) ELSE n)

\* Array.prototype.slice(0, n)
sliceFirst(s, n) == SubSeq(s, 1, IF Len(s) < n THEN Len(s) ELSE n)

\* filterCommands without the slice
filterCommandsUncapped(commands, query) ==
  SelectSeq(commands, LAMBDA item : itemMatches(item, query))

\* filterCommands that keeps the candidates of the empty query
filterCommandsIgnoringQuery(commands, query) ==
  sliceFirst(SelectSeq(commands, LAMBDA item : itemMatches(item, << >>)), 10)

\* commands.filter(...).slice(0, 10)
filterCommands(commands, query) ==
  sliceFirst(SelectSeq(commands, LAMBDA item : itemMatches(item, query)), 10)

(***************************************************************************)
(* The input rule, slashCommandInputRule.ts.                               *)
(*                                                                         *)
(* slashCommandRegex is: start of text or one whitespace character, then   *)
(* "/", then a captured run of word characters up to the end of the text.  *)
(* It is applied with exec to the text before the caret followed by the    *)
(* typed text.  "/" is not a word                                          *)
(* character and the capture runs to the end of the text, so a match has   *)
(* its "/" at the last "/" of the text; exec returns the leftmost match,   *)
(* which takes the whitespace before the "/" when there is one and starts  *)
(* at index 0 (the ^ alternative) otherwise.                               *)
(***************************************************************************)
LastSlash(text) ==
  IF \E i \in DOMAIN text : text[i] = "/"
  THEN CHOOSE i \in DOMAIN text :
         /\ text[i] = "/"
         /\ \A j \in (i + 1)..Len(text) : text[j] # "/"
  ELSE 0

\* slashCommandRegex without the boundary before the "/"
slashCommandRegexNoBoundary(text) ==
  LET p == LastSlash(text) IN
  IF /\ p > 0
     /\ \A j \in (p + 1)..Len(text) : IsWordChar(text[j])
  THEN << [full  |-> SubSeq(text, p, Len(text)),
           query |-> SubSeq(text, p + 1, Len(text))] >>
  ELSE null

\* null, or <<[full |-> match[0], query |-> match[1]]>>
slashCommandRegex(text) ==
  LET p == LastSlash(text) IN
  IF /\ p > 0
     /\ \A j \in (p + 1)..Len(text) : IsWordChar(text[j])
     /\ (p = 1 \/ IsWhitespace(text[p - 1]))
  THEN << [full  |-> SubSeq(text, IF p = 1 THEN 1 ELSE p - 1, Len(text)),
           query |-> SubSeq(text, p + 1, Len(text))] >>
  ELSE null

\* editor.view.coordsAtPos(pos), in units of one character cell on one line
coordsAtPos(pos) == [top |-> 0, bottom |-> 1, left |-> pos]

\* The range the input rule machinery hands to the handler when `typed` is
\* typed at the caret: from the start of match[0] to the caret, the typed
\* text not yet being in the document.
inputRuleRange(caret, typed, full) ==
  [from |-> caret - (Len(full) - Len(typed)), to |-> caret]

\* slashCommandActivation for an engine that also runs input rules inside a
\* code block
slashCommandActivationInCode(text, type, caret, typed) ==
  LET m == slashCommandRegex(text \o typed) IN
  IF m = null
  THEN null
  ELSE LET range == inputRuleRange(caret, typed, m[1].full)
           coords == coordsAtPos(caret)
       IN << [query    |-> m[1].query,
              range    |-> [from |-> IF startsWith(m[1].full, <<" ", "/">>)
                                     THEN range.from + 1
                                     ELSE range.from,
                            to   |-> range.to],
              position |-> [top    |-> coords.bottom,
                            left   |-> coords.left,
                            height |-> coords.bottom - coords.top]] >>

\* handler of createInternalSlashCommandInputRule: the props given to
\* onActivate, or null when the rule does not fire.  Input rules do not run
\* inside a code block.
slashCommandActivation(text, type, caret, typed) ==
  LET m == slashCommandRegex(text \o typed) IN
  IF type = "codeBlock" \/ m = null
  THEN null
  ELSE LET query        == m[1].query
           textMatched  == m[1].full
           range        == inputRuleRange(caret, typed, textMatched)
           triggerStartPosition ==
             IF startsWith(textMatched, <<" ", "/">>)
             THEN range.from + 1
             ELSE range.from
           coords       == coordsAtPos(caret)
       IN << [query    |-> query,
              range    |-> [from |-> triggerStartPosition, to |-> range.to],
              position |-> [top    |-> coords.bottom,
                            left   |-> coords.left,
                            height |-> coords.bottom - coords.top]] >>

(***************************************************************************)
(* React state of the two components, as one record:                       *)
(*   open, query, range, position, items   useState of LiveMarkdownEditor  *)
(*   openRef                               isSlashMenuOpenRef.current      *)
(*   sel, prevLen                          selectedIndex and               *)
(*                                         prevItemsLengthRef.current of   *)
(*                                         the mounted SlashCommandMenu    *)
(*   focus                                 pending setTimeout callbacks    *)
(*   listeners                             listeners registered on         *)
(*                                         document by the listener effect *)
(***************************************************************************)
MenuState ==
  [open     |-> isSlashMenuOpen,
   query    |-> slashMenuQuery,
   range    |-> slashMenuRange,
   position |-> slashMenuPosition,
   items    |-> slashMenuItems,
   openRef  |-> isSlashMenuOpenRef,
   sel      |-> selectedIndex,
   prevLen  |-> prevItemsLengthRef,
   focus    |-> pendingFocus,
   listeners |-> listeners]

\* the values of the useState and useRef initialisers
InitialMenuState ==
  [open     |-> FALSE,
   query    |-> << >>,
   range    |-> null,
   position |-> null,
   items    |-> << >>,
   openRef  |-> FALSE,
   sel      |-> 0,
   prevLen  |-> 0,
   focus    |-> 0,
   listeners |-> [keydown |-> 0, mousedown |-> 0]]

\* closeSlashMenuAndFocusEditor that toggles isSlashMenuOpen
closeTogglingOpen(m) ==
  IF ~m.openRef
  THEN m
  ELSE [m EXCEPT !.open     = ~@,
                 !.query    = << >>,
                 !.range    = null,
                 !.position = null,
                 !.items    = << >>,
                 !.focus    = @ + 1]

\* closeSlashMenuAndFocusEditor without setSlashMenuRange(null)
closeKeepingRange(m) ==
  IF ~m.openRef
  THEN m
  ELSE [m EXCEPT !.open     = FALSE,
                 !.query    = << >>,
                 !.position = null,
                 !.items    = << >>,
                 !.focus    = @ + 1]

\* closeSlashMenuAndFocusEditor without setSlashMenuItems([])
closeKeepingItems(m) ==
  IF ~m.openRef
  THEN m
  ELSE [m EXCEPT !.open     = FALSE,
                 !.query    = << >>,
                 !.range    = null,
                 !.position = null,
                 !.focus    = @ + 1]

\* closeSlashMenuAndFocusEditor: the guard reads the ref, the setters queue
\* the closed defaults, and a focus callback is scheduled
closeSlashMenuAndFocusEditor(m) ==
  IF ~m.openRef
  THEN m
  ELSE [m EXCEPT !.open     = FALSE,
                 !.query    = << >>,
                 !.range    = null,
                 !.position = null,
                 !.items    = << >>,
                 !.focus    = @ + 1]

\* The JSX condition under which <SlashCommandMenu> is mounted
menuMounted(m) == m.open /\ m.position # null

\* autoCloseCondition with < written for ===
autoCloseConditionBelowZero(itemsLength, prevItemsLength) ==
  itemsLength < 0 /\ prevItemsLength > 0

\* condition of the auto-close effect of SlashCommandMenu
autoCloseCondition(itemsLength, prevItemsLength) ==
  itemsLength = 0 /\ prevItemsLength > 0

\* resetSelectedIndex that keeps the index
keepSelectedIndex(prevIndex) == prevIndex

\* the effect of SlashCommandMenu that depends on [items]
resetSelectedIndex(prevIndex) == 0

\* the listener effect without its cleanup function
listenerEffectNoCleanup(ls, wasOpen, isOpen) ==
  IF isOpen
  THEN [keydown |-> ls.keydown + 1, mousedown |-> ls.mousedown + 1]
  ELSE ls

\* The listener effect of LiveMarkdownEditor when isSlashMenuOpen changes:
\* the cleanup of its last run removes the two listeners that run added
\* (it added them when the menu was open), then the effect adds a keydown
\* and a mousedown listener when the menu is open.
listenerEffect(ls, wasOpen, isOpen) ==
  LET cleaned == IF wasOpen
                 THEN [keydown |-> ls.keydown - 1, mousedown |-> ls.mousedown - 1]
                 ELSE ls
  IN IF isOpen
     THEN [keydown |-> cleaned.keydown + 1, mousedown |-> cleaned.mousedown + 1]
     ELSE cleaned

(***************************************************************************)
(* Render and effects.  c is the state of the last committed render, m the *)
(* state the queued updates lead to, itemsChanged tells whether            *)
(* setSlashMenuItems was given a new array (filter, slice and [] all       *)
(* create one).  The result is the state once no update is left.           *)
(*                                                                         *)
(* Effects of one commit run children first: the two [items] effects of    *)
(* the menu, then the effects of the editor (the ref effect on             *)
(* [isSlashMenuOpen], the re-filter effect on [slashMenuQuery,             *)
(* isSlashMenuOpen], the listener effect on [isSlashMenuOpen]).            *)
(***************************************************************************)
RECURSIVE Settle(_, _, _, _)
Settle(commands, c, m, itemsChanged) ==
  LET mounts     == menuMounted(m) /\ ~menuMounted(c)
      \* the menu component as it renders: fresh state when it mounts,
      \* nothing when it is not mounted
      sel0       == IF ~menuMounted(m) \/ mounts THEN 0 ELSE m.sel
      prev0      == IF ~menuMounted(m) THEN 0
                    ELSE IF mounts THEN Len(m.items) ELSE m.prevLen
      rendered   == [m EXCEPT !.sel = sel0, !.prevLen = prev0]
      \* effects of SlashCommandMenu
      menuEffects == menuMounted(m) /\ (mounts \/ itemsChanged)
      autoClose  == menuEffects /\ autoCloseCondition(Len(m.items), prev0)
      afterClose == IF autoClose
                    THEN closeSlashMenuAndFocusEditor(rendered)
                    ELSE rendered
      prev1      == IF menuEffects THEN Len(m.items) ELSE prev0
      sel1       == IF menuEffects THEN resetSelectedIndex(sel0) ELSE sel0
      \* effects of LiveMarkdownEditor
      openDep    == m.open # c.open
      refilter   == (m.query # c.query \/ openDep) /\ m.open
      next       == [afterClose EXCEPT
                       !.sel     = sel1,
                       !.prevLen = prev1,
                       !.openRef = IF openDep THEN m.open ELSE @,
                       !.listeners = IF openDep
                                     THEN listenerEffect(@, c.open, m.open)
                                     ELSE @,
                       !.items   = IF refilter
                                   THEN filterCommands(commands, m.query)
                                   ELSE @]
      newArray   == refilter \/ (autoClose /\ rendered.openRef)
      stateOf(x) == << x.open, x.query, x.range, x.position, x.items, x.sel >>
  IN IF stateOf(next) = stateOf(rendered) /\ ~newArray
     THEN next
     ELSE Settle(commands, rendered, next, newArray)

\* openSlashMenu without setSlashMenuQuery(props.query)
openSlashMenuKeepingQuery(commands, c, props) ==
  Settle(commands, c,
         [c EXCEPT !.open     = TRUE,
                   !.range    = << props.range >>,
                   !.position = << props.position >>,
                   !.items    = filterCommands(commands, c.query)],
         TRUE)

\* openSlashMenu followed by the renders and effects it causes
openSlashMenu(commands, c, props) ==
  Settle(commands, c,
         [c EXCEPT !.open     = TRUE,
                   !.query    = props.query,
                   !.range    = << props.range >>,
                   !.position = << props.position >>,
                   !.items    = filterCommands(commands, props.query)],
         TRUE)

(***************************************************************************)
(* The document.  Positions are those of the document engine: a block      *)
(* takes one position to open, one per character and one to close, so the  *)
(* document is the token sequence open, chars, close, open, ... and        *)
(* position p lies between token p and token p + 1.                        *)
(***************************************************************************)
blockTokens(b) ==
  << [kind |-> "open", val |-> b.type] >>
  \o [i \in DOMAIN b.text |-> [kind |-> "char", val |-> b.text[i]]]
  \o << [kind |-> "close", val |-> b.type] >>

RECURSIVE docTokens(_)
docTokens(d) ==
  IF d = << >> THEN << >> ELSE blockTokens(Head(d)) \o docTokens(Tail(d))

\* the blocks of a well-nested token sequence
RECURSIVE tokensToDoc(_, _)
tokensToDoc(tokens, acc) ==
  IF tokens = << >> THEN acc
  ELSE LET t == Head(tokens) IN
       IF t.kind = "open"
       THEN tokensToDoc(Tail(tokens), Append(acc, [type |-> t.val, text |-> << >>]))
       ELSE IF t.kind = "char"
       THEN tokensToDoc(Tail(tokens),
                        [acc EXCEPT ![Len(acc)].text = Append(@, t.val)])
       ELSE tokensToDoc(Tail(tokens), acc)

\* doc.content.size
docSize(d) == Len(docTokens(d))

\* total number of characters in the document
RECURSIVE docChars(_)
docChars(d) == IF d = << >> THEN 0 ELSE Len(Head(d).text) + docChars(Tail(d))

\* position of the caret: the end of the text of the last block
caretPos(d) == docSize(d) - 1

\* the block holding the caret
caretBlock(d) == d[Len(d)]

\* 1 when position p is inside a block, 0 when it is between blocks
depthAt(tokens, p) ==
  Cardinality({i \in 1..p : tokens[i].kind = "open"})
  - Cardinality({i \in 1..p : tokens[i].kind = "close"})

\* doc.textBetween(from, to) without block separator: the characters
\* between the two positions; positions past the end contribute nothing
textBetween(d, from, to) ==
  LET tokens == docTokens(d)
      hi     == IF to > Len(tokens) THEN Len(tokens) ELSE to
      inside == SubSeq(tokens, from + 1, hi)
      chars  == SelectSeq(inside, LAMBDA t : t.kind = "char")
  IN [i \in DOMAIN chars |-> chars[i].val]

\* tr.delete(from, to) of deleteRange: null when a position is out of range
\* (the engine throws a RangeError), the new document otherwise.  A range
\* that starts inside a block and ends inside a later one joins the two; a
\* range that starts inside a block and ends between blocks leaves the
\* first block closed; one that starts between blocks and ends inside a
\* block leaves that block open.
deleteRange(d, from, to) ==
  LET tokens == docTokens(d) IN
  IF from < 0 \/ to > Len(tokens) \/ from > to
  THEN null
  ELSE LET dFrom == depthAt(tokens, from)
           dTo   == depthAt(tokens, to)
           openOfTo == CHOOSE i \in 1..to :
                         /\ tokens[i].kind = "open"
                         /\ \A j \in (i + 1)..to : tokens[j].kind # "open"
           fix   == IF from = to \/ dFrom = dTo THEN << >>
                    ELSE IF dFrom = 1
                    THEN << [kind |-> "close", val |-> "close"] >>
                    ELSE << tokens[openOfTo] >>
       IN << tokensToDoc(SubSeq(tokens, 1, from) \o fix
                         \o SubSeq(tokens, to + 1, Len(tokens)), << >>) >>

(***************************************************************************)
(* The command functions of the registry, as they change the text blocks.  *)
(* Wrapping nodes (lists, quote) and inserted nodes (rule, table) are not  *)
(* text blocks: a wrap leaves the caret's block in place, an insertion     *)
(* after a non-empty block moves the caret into a new empty paragraph.     *)
(* A block's type is the name of its node type; the level of a heading is  *)
(* not kept.                                                               *)
(***************************************************************************)
setCaretBlockType(d, type) == [d EXCEPT ![Len(d)].type = type]

applyCommand(d, id) ==
  LET b == caretBlock(d) IN
  CASE id \in {"heading1", "heading2", "heading3"} ->
         setCaretBlockType(d, "heading")
    [] id = "paragraph" -> setCaretBlockType(d, "paragraph")
    [] id = "codeBlock" ->
         setCaretBlockType(d, IF b.type = "codeBlock" THEN "paragraph"
                              ELSE "codeBlock")
    [] id \in {"bulletList", "numberedList"} ->
         IF b.type = "heading" THEN setCaretBlockType(d, "paragraph") ELSE d
    [] id \in {"horizontalRule", "table"} ->
         IF b.text = << >>
         THEN IF id = "table" THEN setCaretBlockType(d, "paragraph") ELSE d
         ELSE Append(d, [type |-> "paragraph", text |-> << >>])
    [] OTHER -> d

\* The command function of the item throws: "taskList" calls
\* chain().focus().toggleTaskList(), a command that no registered extension
\* adds (the task list extension adds toggleTextTaskList), so the call of
\* the missing member raises a TypeError.
commandThrows(id) == id = "taskList"

(***************************************************************************)
(* Execution: handleCommandSelection, called through selectItem.           *)
(* The result is [threw, doc, m, executed, steps]: whether an exception    *)
(* left the handler, the document, the queued React state, the id of the   *)
(* item handleCommandSelection was called with ("" when it was not called) *)
(* and the operations that completed, in the order of their completion.    *)
(* The deletion is dispatched by run() before the command function is      *)
(* called, so a command that throws leaves the document with the deletion. *)
(***************************************************************************)
\* fullRange of handleCommandSelection: the stored range, with from moved
\* left by one when the text between from - 1 and to starts with "/"
fullRangeOf(d, slashRange) ==
  LET textAtRange == textBetween(d, slashRange.from - 1, slashRange.to)
  IN [from |-> IF startsWith(textAtRange, << "/" >>)
               THEN slashRange.from - 1
               ELSE slashRange.from,
      to   |-> slashRange.to]

\* handleCommandSelection that applies the command before the deletion
handleCommandSelectionApplyFirst(d, c, item) ==
  IF c.range # null
  THEN LET slashRange  == c.range[1]
           applied     == applyCommand(d, item.id)
           deleted     == deleteRange(applied, slashRange.from, slashRange.to)
       IN IF commandThrows(item.id) \/ deleted = null
          THEN [threw |-> TRUE, doc |-> d, m |-> c,
                executed |-> item.id, steps |-> << >>]
          ELSE [threw |-> FALSE, doc |-> deleted[1],
                m     |-> closeSlashMenuAndFocusEditor(c),
                executed |-> item.id,
                steps |-> << "command", "deleteRange", "close" >>]
  ELSE [threw |-> FALSE, doc |-> d, m |-> closeSlashMenuAndFocusEditor(c),
        executed |-> item.id, steps |-> << "close" >>]

handleCommandSelection(d, c, item) ==
  IF c.range # null
  THEN LET slashRange  == c.range[1]
           fullRange   == fullRangeOf(d, slashRange)
           deleted     == deleteRange(d, fullRange.from, fullRange.to)
       IN IF deleted = null
          THEN [threw |-> TRUE, doc |-> d, m |-> c,
                executed |-> item.id, steps |-> << >>]
          ELSE IF commandThrows(item.id)
          THEN [threw |-> TRUE, doc |-> deleted[1], m |-> c,
                executed |-> item.id, steps |-> << "deleteRange" >>]
          ELSE [threw |-> FALSE,
                doc   |-> applyCommand(deleted[1], item.id),
                m     |-> closeSlashMenuAndFocusEditor(c),
                executed |-> item.id,
                steps |-> << "deleteRange", "command", "close" >>]
  ELSE [threw |-> FALSE, doc |-> d, m |-> closeSlashMenuAndFocusEditor(c),
        executed |-> item.id, steps |-> << "close" >>]

\* itemAt that always gives the first entry
itemAtFirst(items, index) ==
  IF index >= 0 /\ index < Len(items) THEN << items[1] >> ELSE null

\* items[index] of the code, index counted from 0; null when undefined
itemAt(items, index) ==
  IF index >= 0 /\ index < Len(items) THEN << items[index + 1] >> ELSE null

\* selectItem: command(item), then onClose()
selectItem(d, c, index) ==
  LET item == itemAt(c.items, index) IN
  IF item = null
  THEN [threw |-> FALSE, doc |-> d, m |-> c, executed |-> "",
        steps |-> << >>]
  ELSE LET r == handleCommandSelection(d, c, item[1]) IN
       IF r.threw THEN r
       ELSE [r EXCEPT !.m = closeSlashMenuAndFocusEditor(@),
                      !.steps = Append(@, "close")]

\* the Enter case of onKeyDown without the close on an empty list
onKeyDownEnterNoClose(d, c) ==
  IF itemAt(c.items, c.sel) # null THEN selectItem(d, c, c.sel)
  ELSE [threw |-> FALSE, doc |-> d, m |-> c, executed |-> "",
        steps |-> << >>]

\* the Enter case of onKeyDown: the highlighted item is selected; without
\* one, the menu is closed when the list is empty
onKeyDownEnter(d, c) ==
  IF itemAt(c.items, c.sel) # null THEN selectItem(d, c, c.sel)
  ELSE IF Len(c.items) = 0
  THEN [threw |-> FALSE, doc |-> d, m |-> closeSlashMenuAndFocusEditor(c),
        executed |-> "", steps |-> << "close" >>]
  ELSE [threw |-> FALSE, doc |-> d, m |-> c, executed |-> "",
        steps |-> << >>]

(***************************************************************************)
(* Selection arithmetic of onKeyDown.  NaN is the result of a remainder by *)
(* zero; every arithmetic on NaN gives NaN.                                *)
(***************************************************************************)
NaN == 0 - 1

jsRemainder(a, n) == IF n = 0 THEN NaN ELSE a % n

\* arrowUpIndex that stops at the first entry
arrowUpIndexClamped(prevIndex, itemsLength) ==
  IF prevIndex = NaN THEN NaN
  ELSE IF prevIndex = 0 THEN 0 ELSE prevIndex - 1

\* ArrowUp: (prevIndex + items.length - 1) % items.length
arrowUpIndex(prevIndex, itemsLength) ==
  IF prevIndex = NaN THEN NaN
  ELSE jsRemainder(prevIndex + itemsLength - 1, itemsLength)

\* arrowDownIndex without the remainder
arrowDownIndexUnbounded(prevIndex, itemsLength) ==
  IF prevIndex = NaN THEN NaN ELSE prevIndex + 1

\* arrowDownIndex with the remainder taken one too far
arrowDownIndexLate(prevIndex, itemsLength) ==
  IF prevIndex = NaN THEN NaN
  ELSE jsRemainder(prevIndex + 1, itemsLength + 1)

\* ArrowDown: (prevIndex + 1) % items.length
arrowDownIndex(prevIndex, itemsLength) ==
  IF prevIndex = NaN THEN NaN
  ELSE jsRemainder(prevIndex + 1, itemsLength)

(***************************************************************************)
(* Events.                                                                 *)
(***************************************************************************)
TypedChars == { "/", " ", "x", "j" }

\* what an event found when it arrived
Before ==
  [open        |-> isSlashMenuOpen,
   itemsLength |-> Len(slashMenuItems),
   sel         |-> selectedIndex]

Event(type, key, activation, item, threw, consumed, steps) ==
  [type       |-> type,        \* "init", "text", "backspace", "keydown",
                               \* "click", "mousedown", "setContent"
   key        |-> key,         \* the character, the key name, the index
                               \* of the clicked entry, the place of a
                               \* mousedown
   activation |-> activation,  \* null or the props given to onActivate
   item       |-> item,        \* id of the command handed to execution, or ""
   threw      |-> threw,       \* an exception left the handler
   consumed   |-> consumed,    \* preventDefault and stopPropagation called
   steps      |-> steps,       \* the operations the handler completed
   before     |-> Before]

\* the state variables of the two components take the values of record m
SetMenuState(m) ==
  /\ isSlashMenuOpen'    = m.open
  /\ slashMenuQuery'     = m.query
  /\ slashMenuRange'     = m.range
  /\ slashMenuPosition'  = m.position
  /\ slashMenuItems'     = m.items
  /\ isSlashMenuOpenRef' = m.openRef
  /\ selectedIndex'      = m.sel
  /\ prevItemsLengthRef' = m.prevLen
  /\ pendingFocus'       = m.focus
  /\ listeners'          = m.listeners

\* a user event is taken up when the focus callbacks it may add fit the bound
RoomForFocus == pendingFocus + 2 <= MaxPendingFocus

appendChar(d, ch) == [d EXCEPT ![Len(d)].text = Append(@, ch)]

\* splitBlock at the end of a block: a new empty paragraph after it
splitBlock(d) == Append(d, [type |-> "paragraph", text |-> << >>])

\* the keys onKeyDown of the menu returns true for
MenuKeys == { "ArrowUp", "ArrowDown", "Enter", "Escape" }

\* handleKeyDown that consumes every key while its listener is registered
keyConsumedWhileListening(ls, openRef, key) == ls.keydown > 0

\* handleKeyDown, for a handler that returns: preventDefault and
\* stopPropagation are called when a keydown listener is registered, the
\* ref is set and the menu's onKeyDown returns true (Escape is also taken
\* by handleKeyDown itself)
keyConsumed(ls, openRef, key) ==
  ls.keydown > 0 /\ openRef /\ key \in MenuKeys

\* A character is typed.  The capture-phase keydown listener lets it pass,
\* the input rule runs on the text before the caret plus the character and
\* may call openSlashMenu, then the character is inserted.  A consumed key
\* reaches neither the input rule nor the document.
InsertTyped(ch) ==
  /\ RoomForFocus
  /\ LET b   == caretBlock(doc)
         consumed == keyConsumed(listeners, isSlashMenuOpenRef, ch)
         act == IF consumed THEN null
                ELSE slashCommandActivation(b.text, b.type, caretPos(doc),
                                            << ch >>)
     IN /\ SetMenuState(IF act = null THEN MenuState
                        ELSE openSlashMenu(registry, MenuState, act[1]))
        /\ lastEvent' = Event("text", ch, act, "", FALSE, consumed, << >>)
        /\ doc' = IF consumed THEN doc ELSE appendChar(doc, ch)
  /\ UNCHANGED << registry, client, client >>

TypeChar(ch) ==
  /\ docChars(doc) < MaxDocLen
  /\ InsertTyped(ch)

\* Backspace: not a key of the menu; the engine deletes the character before
\* the caret, or joins an empty block into the one before it.
Backspace ==
  /\ RoomForFocus
  /\ \/ caretBlock(doc).text # << >>
     \/ Len(doc) > 1
  /\ LET consumed == keyConsumed(listeners, isSlashMenuOpenRef, "Backspace")
     IN /\ doc' = IF consumed THEN doc
                  ELSE IF caretBlock(doc).text # << >>
                  THEN [doc EXCEPT ![Len(doc)].text = SubSeq(@, 1, Len(@) - 1)]
                  ELSE SubSeq(doc, 1, Len(doc) - 1)
        /\ lastEvent' = Event("backspace", "Backspace", null, "", FALSE,
                              consumed, << >>)
  /\ UNCHANGED << registry, client, isSlashMenuOpen, slashMenuQuery, slashMenuRange,
                  slashMenuPosition, slashMenuItems, isSlashMenuOpenRef,
                  selectedIndex, prevItemsLengthRef, pendingFocus,
                  listeners >>

\* ArrowUp / ArrowDown while the listener is installed and the ref is set
ArrowKey(key) ==
  /\ RoomForFocus
  /\ isSlashMenuOpen /\ isSlashMenuOpenRef
  /\ key \in {"ArrowUp", "ArrowDown"}
  /\ LET c == MenuState
         n == Len(slashMenuItems)
         m == [c EXCEPT !.sel = IF key = "ArrowUp"
                                THEN arrowUpIndex(@, n)
                                ELSE arrowDownIndex(@, n)]
     IN SetMenuState(Settle(registry, c, m, FALSE))
  /\ lastEvent' = Event("keydown", key, null, "", FALSE,
                        keyConsumed(listeners, isSlashMenuOpenRef, key),
                        << >>)
  /\ UNCHANGED << registry, client, doc >>

\* Enter while the menu is open: the highlighted item is executed, or the
\* menu is closed when there is no item.  When execution throws, the
\* listener is left before preventDefault and the engine splits the block.
EnterKey ==
  /\ RoomForFocus
  /\ isSlashMenuOpen /\ isSlashMenuOpenRef
  /\ LET c == MenuState
         r == onKeyDownEnter(doc, c)
     IN /\ Len(r.doc) <= MaxBlocks
        /\ r.threw => Len(r.doc) < MaxBlocks
        /\ SetMenuState(Settle(registry, c, r.m, r.m # c))
        /\ doc' = IF r.threw THEN splitBlock(r.doc) ELSE r.doc
        /\ lastEvent' = Event("keydown", "Enter", null, r.executed, r.threw,
                              ~r.threw /\ keyConsumed(listeners,
                                                      isSlashMenuOpenRef,
                                                      "Enter"),
                              r.steps)
  /\ UNCHANGED << registry, client, client >>

\* Escape while the menu is open: onClose()
EscapeKey ==
  /\ RoomForFocus
  /\ isSlashMenuOpen /\ isSlashMenuOpenRef
  /\ LET c == MenuState
     IN SetMenuState(Settle(registry, c, closeSlashMenuAndFocusEditor(c), TRUE))
  /\ lastEvent' = Event("keydown", "Escape", null, "", FALSE,
                        keyConsumed(listeners, isSlashMenuOpenRef, "Escape"),
                        << "close" >>)
  /\ UNCHANGED << registry, client, doc >>

\* Enter while the menu is closed: no listener is installed, the engine
\* splits the block (inside a code block it would add a line instead)
EnterClosed ==
  /\ RoomForFocus
  /\ ~isSlashMenuOpen
  /\ Len(doc) < MaxBlocks
  /\ caretBlock(doc).type # "codeBlock"
  /\ ~keyConsumed(listeners, isSlashMenuOpenRef, "Enter")
  /\ doc' = splitBlock(doc)
  /\ lastEvent' = Event("keydown", "Enter", null, "", FALSE, FALSE, << >>)
  /\ UNCHANGED << registry, client, isSlashMenuOpen, slashMenuQuery, slashMenuRange,
                  slashMenuPosition, slashMenuItems, isSlashMenuOpenRef,
                  selectedIndex, prevItemsLengthRef, pendingFocus,
                  listeners >>

\* A click on entry `index` of the rendered menu: the mousedown is inside
\* the menu container, the click calls selectItem(index).
ClickItem(index) ==
  /\ RoomForFocus
  /\ isSlashMenuOpen /\ isSlashMenuOpenRef
  /\ index \in 0..(Len(slashMenuItems) - 1)
  /\ LET c == MenuState
         r == selectItem(doc, c, index)
     IN /\ Len(r.doc) <= MaxBlocks
        /\ SetMenuState(Settle(registry, c, r.m, r.m # c))
        /\ doc' = r.doc
        /\ lastEvent' = Event("click", ToString(index), null, r.executed,
                              r.threw, FALSE,
                              r.steps)
  /\ UNCHANGED << registry, client, client >>

\* handleClickOutside that does not look at the target
handleClickOutsideAnyTarget(c, isInsideSlashMenu) ==
  IF ~c.openRef THEN c ELSE closeSlashMenuAndFocusEditor(c)

\* handleClickOutside: the mousedown listener; isInsideSlashMenu is whether
\* the menu container contains the target
handleClickOutside(c, isInsideSlashMenu) ==
  IF ~c.openRef THEN c
  ELSE IF ~isInsideSlashMenu THEN closeSlashMenuAndFocusEditor(c)
  ELSE c

\* A mousedown outside the menu container
ClickOutside ==
  /\ RoomForFocus
  /\ isSlashMenuOpen /\ isSlashMenuOpenRef
  /\ LET c == MenuState
         m == handleClickOutside(c, FALSE)
     IN SetMenuState(Settle(registry, c, m, m # c))
  /\ lastEvent' = Event("mousedown", "outside", null, "", FALSE, FALSE,
                        << "close" >>)
  /\ UNCHANGED << registry, client, doc >>

\* the menu component renders its container's content: it returns null when
\* there is no item for a non-empty query
menuRendered == slashMenuItems # << >> \/ slashMenuQuery = << >>

\* A mousedown inside the menu container that is not followed by a click on
\* an entry (on the title, or released elsewhere)
MouseDownInside ==
  /\ RoomForFocus
  /\ isSlashMenuOpen /\ isSlashMenuOpenRef
  /\ menuRendered
  /\ LET c == MenuState
         m == handleClickOutside(c, TRUE)
     IN SetMenuState(Settle(registry, c, m, m # c))
  /\ lastEvent' = Event("mousedown", "inside", null, "", FALSE, FALSE,
                        IF handleClickOutside(MenuState, TRUE) # MenuState
                        THEN << "close" >> ELSE << >>)
  /\ UNCHANGED << registry, client, doc >>

\* the document of an empty markdown text
EmptyContent == << [type |-> "paragraph", text |-> << >>] >>

\* The embedding application replaces the content (it loads a file with an
\* empty text): initialContent differs from the editor's markdown and the
\* effect calls setContent.  Nothing of the menu is touched.
SetContent ==
  /\ RoomForFocus
  /\ doc # EmptyContent
  /\ doc' = EmptyContent
  /\ lastEvent' = Event("setContent", "", null, "", FALSE, FALSE, << >>)
  /\ UNCHANGED << registry, client, isSlashMenuOpen, slashMenuQuery, slashMenuRange,
                  slashMenuPosition, slashMenuItems, isSlashMenuOpenRef,
                  selectedIndex, prevItemsLengthRef, pendingFocus,
                  listeners >>

\* A callback of setTimeout(..., 0) runs: editor.commands.focus()
FocusTimer ==
  /\ pendingFocus > 0
  /\ pendingFocus' = pendingFocus - 1
  /\ UNCHANGED << registry, client, doc, isSlashMenuOpen, slashMenuQuery,
                  slashMenuRange, slashMenuPosition, slashMenuItems,
                  isSlashMenuOpenRef, selectedIndex, prevItemsLengthRef,
                  listeners, lastEvent >>

(***************************************************************************)
(* The GitHub API client, services/github/api.ts.  Times are milliseconds  *)
(* (Date.now()), reset times of the rate limit are seconds.  The client    *)
(* record holds the configuration (maxRetries, timeout) and the request in *)
(* progress:                                                               *)
(*   phase     "idle", "fetching" (executeRequest awaits fetch),           *)
(*             "delaying" (executeWithRetry awaits delay), "returned",     *)
(*             "thrown"                                                    *)
(*   attempt   the attempt parameter of executeWithRetry                   *)
(*   calls     how often requestFn has been invoked                        *)
(*   now       Date.now()                                                  *)
(*   deadline  when AbortSignal.timeout(timeout) of request() aborts       *)
(*   wake      when the pending delay ends                                 *)
(*   error     null or the GitHubApiError caught last: [status,            *)
(*             rateLimitInfo], rateLimitInfo null or <<[reset]>>           *)
(*   waitKind  which branch scheduled the pending delay                    *)
(***************************************************************************)
defaultTimeout == 10000

defaultMaxRetries == 3

noRetryStatuses == { 400, 401, 403, 404, 422 }

Min(a, b) == IF a < b THEN a ELSE b

Max(a, b) == IF a > b THEN a ELSE b

\* Math.min(1000 * Math.pow(2, attempt - 1), 10000)
backoffTime(attempt) == Min(1000 * 2 ^ (attempt - 1), 10000)

\* Math.max(0, resetTime * 1000 - Date.now())
waitTime(resetTime, now) == Max(0, resetTime * 1000 - now)

\* error.rateLimitInfo?.reset, 0 standing for every falsy value
resetTimeOf(error) ==
  IF error.rateLimitInfo = null THEN 0 ELSE error.rateLimitInfo[1].reset

\* executeWithRetry whose attempt check lets one more attempt through
executeWithRetryOneMore(maxRetries, attempt, error, now) ==
  IF error.status \in noRetryStatuses \/ attempt > maxRetries
  THEN [throw |-> TRUE, delay |-> 0, kind |-> ""]
  ELSE IF /\ error.status = 429
          /\ resetTimeOf(error) # 0
          /\ waitTime(resetTimeOf(error), now) > 0
          /\ waitTime(resetTimeOf(error), now) < 60000
  THEN [throw |-> FALSE, delay |-> waitTime(resetTimeOf(error), now),
        kind |-> "rateLimit"]
  ELSE IF error.status >= 500
  THEN [throw |-> FALSE, delay |-> backoffTime(attempt), kind |-> "server"]
  ELSE IF attempt < maxRetries
  THEN [throw |-> FALSE, delay |-> backoffTime(attempt), kind |-> "network"]
  ELSE [throw |-> TRUE, delay |-> 0, kind |-> ""]

\* The catch block of executeWithRetry for a GitHubApiError (executeRequest
\* throws nothing else): rethrow, or the delay after which the next attempt
\* is made and the branch that chose it.
executeWithRetry(maxRetries, attempt, error, now) ==
  IF error.status \in noRetryStatuses \/ attempt >= maxRetries
  THEN [throw |-> TRUE, delay |-> 0, kind |-> ""]
  ELSE IF /\ \/ error.status = 429
             \/ (error.status = 403 /\ error.rateLimitInfo # null)
          /\ resetTimeOf(error) # 0
          /\ waitTime(resetTimeOf(error), now) > 0
          /\ waitTime(resetTimeOf(error), now) < 60000
  THEN [throw |-> FALSE, delay |-> waitTime(resetTimeOf(error), now),
        kind |-> "rateLimit"]
  ELSE IF error.status >= 500
  THEN [throw |-> FALSE, delay |-> backoffTime(attempt), kind |-> "server"]
  ELSE IF attempt < maxRetries
  THEN [throw |-> FALSE, delay |-> backoffTime(attempt), kind |-> "network"]
  ELSE [throw |-> TRUE, delay |-> 0, kind |-> ""]

\* new GitHubApiClient(baseUrl, timeout, maxRetries, getToken), at time now
NewClient(timeout, maxRetries, now) ==
  [timeout    |-> timeout,
   maxRetries |-> maxRetries,
   phase      |-> "idle",
   attempt    |-> 0,
   calls      |-> 0,
   now        |-> now,
   deadline   |-> 0,
   wake       |-> 0,
   error      |-> null,
   waitKind   |-> ""]

\* the client after requestFn failed with error at time now
caught(c, error, now) ==
  LET d == executeWithRetry(c.maxRetries, c.attempt, error, now) IN
  [c EXCEPT !.calls    = @ + 1,
            !.now      = now,
            !.error    = << error >>,
            !.phase    = IF d.throw THEN "thrown" ELSE "delaying",
            !.wake     = IF d.throw THEN @ ELSE now + d.delay,
            !.waitKind = d.kind]

InitClient == client = NewClient(defaultTimeout, defaultMaxRetries, 0)

(***************************************************************************)
(* The editor: the shipped registry, an empty paragraph, the menu closed.  *)
(***************************************************************************)
InitMenu ==
  /\ isSlashMenuOpen    = InitialMenuState.open
  /\ slashMenuQuery     = InitialMenuState.query
  /\ slashMenuRange     = InitialMenuState.range
  /\ slashMenuPosition  = InitialMenuState.position
  /\ slashMenuItems     = InitialMenuState.items
  /\ isSlashMenuOpenRef = InitialMenuState.openRef
  /\ selectedIndex      = InitialMenuState.sel
  /\ prevItemsLengthRef = InitialMenuState.prevLen
  /\ pendingFocus       = InitialMenuState.focus
  /\ listeners          = InitialMenuState.listeners

InitDoc == doc = EmptyContent

InitEvent ==
  lastEvent = [type |-> "init", key |-> "", activation |-> null, item |-> "",
               threw |-> FALSE, consumed |-> FALSE, steps |-> << >>,
               before |-> [open |-> FALSE, itemsLength |-> 0, sel |-> 0]]

Init ==
  /\ registry = slashCommands
  /\ InitDoc
  /\ InitMenu
  /\ InitEvent
  /\ InitClient

Next ==
  \/ \E ch \in TypedChars : TypeChar(ch)
  \/ Backspace
  \/ \E key \in {"ArrowUp", "ArrowDown"} : ArrowKey(key)
  \/ EnterKey
  \/ EscapeKey
  \/ EnterClosed
  \/ \E index \in 0..9 : ClickItem(index)
  \/ ClickOutside
  \/ MouseDownInside
  \/ SetContent
  \/ FocusTimer

Spec == Init /\ [][Next]_vars

(***************************************************************************)
(* The filter and the selection arithmetic over arbitrary registries: the  *)
(* registry is drawn from a set of test registries, the menu is activated  *)
(* with matches for test queries, and the arrow keys move the selection.   *)
(***************************************************************************)
TestDescriptors ==
  { [id |-> "ta", title |-> << "H", "a" >>, aliases |-> << >>],
    [id |-> "tb", title |-> << "b" >>, aliases |-> << << "h", "a" >> >>],
    [id |-> "tc", title |-> << "A", "H" >>,
     aliases |-> << << "c" >>, << "B" >> >>] }

SmallRegistries ==
  UNION { [1..n -> TestDescriptors] : n \in 0..MaxRegistryLen }

TestRegistries ==
  SmallRegistries
  \cup { slashCommands \o r : r \in SmallRegistries }
  \cup { r \o slashCommands : r \in SmallRegistries }

TestQueries ==
  { << >>,
    << "h" >>,
    << "h", "a" >>,
    << "b" >>,
    << "h", "1" >>,
    << "H", "1" >>,
    << "z", "z" >>,
    << "N", "G" >> }

\* The trigger text "/" followed by query q is completed at the start of a
\* paragraph by typing its last character: the props the input rule gives
\* to onActivate.
activationFor(q) ==
  LET full == << "/" >> \o q
      text == SubSeq(full, 1, Len(full) - 1)
  IN slashCommandActivation(text, "paragraph", Len(text) + 1,
                            << full[Len(full)] >>)

ActivateQuery(q) ==
  /\ RoomForFocus
  /\ LET act == activationFor(q)
     IN /\ act # null
        /\ SetMenuState(openSlashMenu(registry, MenuState, act[1]))
        /\ lastEvent' = Event("text", q, act, "", FALSE, FALSE, << >>)
  /\ UNCHANGED << registry, client, doc >>

InitRegistry ==
  /\ registry \in TestRegistries
  /\ InitDoc
  /\ InitMenu
  /\ InitEvent
  /\ InitClient

NextRegistry ==
  \/ \E q \in TestQueries : ActivateQuery(q)
  \/ \E key \in {"ArrowUp", "ArrowDown"} : ArrowKey(key)
  \/ FocusTimer

SpecRegistry == InitRegistry /\ [][NextRegistry]_vars

(***************************************************************************)
(* The input rule over arbitrary text: the document is one block, a        *)
(* paragraph or a code block, that already holds a text (typed or pasted)  *)
(* of boundary, word and other characters, and characters are typed at its *)
(* end; the open menu is closed by Escape or by a mousedown outside it.    *)
(***************************************************************************)
MaxTextLen == 2

DetectorChars == { "/", " ", "\t", "nbsp", "\n", "a", "_", "\\", "-" }

TextsUpTo(n) == UNION { [1..k -> DetectorChars] : k \in 0..n }

TypeInBlock(ch) ==
  /\ Len(caretBlock(doc).text) <= MaxTextLen
  /\ InsertTyped(ch)

InitDetector ==
  /\ registry = slashCommands
  /\ \E type \in {"paragraph", "codeBlock"} :
       \E text \in TextsUpTo(MaxTextLen) :
         doc = << [type |-> type, text |-> text] >>
  /\ InitMenu
  /\ InitEvent
  /\ InitClient

NextDetector ==
  \/ \E ch \in DetectorChars : TypeInBlock(ch)
  \/ EscapeKey
  \/ ClickOutside
  \/ FocusTimer

SpecDetector == InitDetector /\ [][NextDetector]_vars

(***************************************************************************)
(* A request of the API client: request() creates the abort signal and     *)
(* calls executeWithRetry, whose attempts end with a response, a network   *)
(* error or the abort of the signal, and whose delays end when their timer *)
(* fires.  The signal is created once, so its deadline holds for every     *)
(* attempt.  fetch settles and timers fire: the steps are weakly fair.     *)
(***************************************************************************)
MaxRetries == 3

StartTimes == { 5000 }

Latencies == { 100, 2000 }

ResponseStatuses == { 200, 400, 401, 403, 404, 409, 422, 429, 500, 503 }

\* values of the x-ratelimit-reset header
ResetTimes == { 0, 4, 30, 66 }

\* extractRateLimitInfo: undefined when a header is missing
RateLimitInfos == { null } \cup { << [reset |-> r] >> : r \in ResetTimes }

editorVars == << registry, doc, isSlashMenuOpen, slashMenuQuery,
                 slashMenuRange, slashMenuPosition, slashMenuItems,
                 isSlashMenuOpenRef, selectedIndex, prevItemsLengthRef,
                 pendingFocus, listeners, lastEvent >>

\* request(): the signal is created, executeWithRetry starts attempt 1
Request ==
  /\ client.phase = "idle"
  /\ client' = [client EXCEPT !.phase    = "fetching",
                              !.attempt  = 1,
                              !.deadline = client.now + client.timeout]
  /\ UNCHANGED editorVars

\* executeRequest: fetch resolves with a response before the signal aborts;
\* a response that is not ok is thrown as a GitHubApiError
FetchResponds(status, rateLimitInfo, latency) ==
  /\ client.phase = "fetching"
  /\ client.now + latency < client.deadline
  /\ client' = IF status >= 200 /\ status <= 299
               THEN [client EXCEPT !.calls = @ + 1,
                                   !.now   = @ + latency,
                                   !.phase = "returned"]
               ELSE caught(client,
                           [status |-> status, rateLimitInfo |-> rateLimitInfo],
                           client.now + latency)
  /\ UNCHANGED editorVars

\* executeRequest: fetch rejects with a network error, thrown with status 0
FetchFails(latency) ==
  /\ client.phase = "fetching"
  /\ client.now + latency < client.deadline
  /\ client' = caught(client, [status |-> 0, rateLimitInfo |-> null],
                      client.now + latency)
  /\ UNCHANGED editorVars

\* executeRequest: the signal aborts the fetch (at once when the deadline
\* has passed); the rejection is thrown with status 408 when its name is
\* AbortError and with status 0 otherwise
FetchTimesOut(status) ==
  /\ client.phase = "fetching"
  /\ status \in { 0, 408 }
  /\ client' = caught(client, [status |-> status, rateLimitInfo |-> null],
                      Max(client.now, client.deadline))
  /\ UNCHANGED editorVars

\* delay(ms) resolves: executeWithRetry(requestFn, attempt + 1)
DelayElapsed ==
  /\ client.phase = "delaying"
  /\ client' = [client EXCEPT !.now     = client.wake,
                              !.attempt = @ + 1,
                              !.phase   = "fetching"]
  /\ UNCHANGED editorVars

InitRetry ==
  /\ registry = slashCommands
  /\ InitDoc
  /\ InitMenu
  /\ InitEvent
  /\ \E maxRetries \in 1..MaxRetries :
       \E now \in StartTimes :
         client = NewClient(defaultTimeout, maxRetries, now)

NextRetry ==
  \/ Request
  \/ \E status \in ResponseStatuses :
       \E rateLimitInfo \in RateLimitInfos :
         \E latency \in Latencies :
           FetchResponds(status, rateLimitInfo, latency)
  \/ \E latency \in Latencies : FetchFails(latency)
  \/ \E status \in { 0, 408 } : FetchTimesOut(status)
  \/ DelayElapsed

SpecRetry == InitRetry /\ [][NextRetry]_vars /\ WF_vars(NextRetry)

(***************************************************************************)
(* What the specification says of the filter, stated without the code's    *)
(* filter.                                                                 *)
(***************************************************************************)
\* q is a case-insensitive substring of s
ContainsIgnoringCase(s, q) ==
  \E a \in 1..(Len(s) + 1) :
    \E b \in (a - 1)..Len(s) :
      toLowerCase(SubSeq(s, a, b)) = toLowerCase(q)

DescriptorMatches(d, q) ==
  \/ ContainsIgnoringCase(d.title, q)
  \/ \E a \in DOMAIN d.aliases : ContainsIgnoringCase(d.aliases[a], q)

MatchingIndices(R, q) == { i \in DOMAIN R : DescriptorMatches(R[i], q) }

KthSmallest(S, k) ==
  CHOOSE x \in S : Cardinality({ y \in S : y < x }) = k - 1

\* the first `cap` matching descriptors of R, in the order of R
FirstMatches(R, q, cap) ==
  LET S == MatchingIndices(R, q)
      n == IF Cardinality(S) < cap THEN Cardinality(S) ELSE cap
  IN [k \in 1..n |-> R[KthSmallest(S, k)]]

\* xs can be obtained from R by leaving descriptors out
RECURSIVE KeepsOrderOf(_, _)
KeepsOrderOf(xs, R) ==
  IF xs = << >> THEN TRUE
  ELSE IF R = << >> THEN FALSE
  ELSE IF Head(xs) = Head(R) THEN KeepsOrderOf(Tail(xs), Tail(R))
  ELSE KeepsOrderOf(xs, Tail(R))

Ids(items) == [i \in DOMAIN items |-> items[i].id]

\* C1: whatever the registry and the query, the candidates of the open menu
\* are descriptors that match the query (case-insensitive substring of the
\* title or of an alias), in the relative order of the registry, at most 10.
C1_FilterCorrectness ==
  isSlashMenuOpen =>
    /\ \A i \in DOMAIN slashMenuItems :
         DescriptorMatches(slashMenuItems[i], slashMenuQuery)
    /\ KeepsOrderOf(slashMenuItems, registry)
    /\ Len(slashMenuItems) <= 10

\* C1 witness: an activation over a registry with more than 10 matching
\* descriptors left exactly 10 candidates
C1_Witness ==
  /\ isSlashMenuOpen
  /\ lastEvent.activation # null
  /\ Cardinality(MatchingIndices(registry, slashMenuQuery)) > 10
  /\ Len(slashMenuItems) = 10

\* C2: the candidates of the open menu are exactly the first 10 matching
\* descriptors in registry order; a descriptor matching only through an
\* alias is among them; with the shipped registry the query "h1" (in any
\* case) gives exactly heading1.
C2_FirstTenMatches ==
  isSlashMenuOpen =>
    /\ slashMenuItems = FirstMatches(registry, slashMenuQuery, 10)
    /\ (registry = slashCommands /\ toLowerCase(slashMenuQuery) = << "h", "1" >>)
         => Ids(slashMenuItems) = << "heading1" >>

\* C2 witness: the shipped registry, query "h1", heading1 found through its
\* alias only
C2_Witness ==
  /\ isSlashMenuOpen
  /\ registry = slashCommands
  /\ slashMenuQuery = << "h", "1" >>
  /\ Ids(slashMenuItems) = << "heading1" >>
  /\ ~ContainsIgnoringCase(slashMenuItems[1].title, slashMenuQuery)

ShippedFirstTen ==
  << "heading1", "heading2", "heading3", "bulletList", "numberedList",
     "taskList", "blockquote", "codeBlock", "horizontalRule", "table" >>

\* C3: with the empty query the candidates are the first min(10, |R|)
\* descriptors of the registry; for the shipped registry these are
\* heading1 ... table, without paragraph.
C3_EmptyQuery ==
  (isSlashMenuOpen /\ slashMenuQuery = << >>) =>
    /\ slashMenuItems =
         SubSeq(registry, 1, IF Len(registry) < 10 THEN Len(registry) ELSE 10)
    /\ registry = slashCommands => Ids(slashMenuItems) = ShippedFirstTen

\* C3 witness: activation with the empty query over the shipped registry
C3_Witness ==
  /\ isSlashMenuOpen
  /\ lastEvent.activation # null
  /\ slashMenuQuery = << >>
  /\ registry = slashCommands
  /\ Ids(slashMenuItems) = ShippedFirstTen

(***************************************************************************)
(* The menu state after an event.                                          *)
(***************************************************************************)
ClosedDefaults ==
  /\ ~isSlashMenuOpen
  /\ slashMenuQuery = << >>
  /\ slashMenuRange = null
  /\ slashMenuPosition = null
  /\ slashMenuItems = << >>

\* the menu is open on match a: every field comes from the match, the
\* candidates from the filter, the first candidate is selected
OpenOn(a) ==
  /\ isSlashMenuOpen
  /\ slashMenuQuery = a.query
  /\ slashMenuRange = << a.range >>
  /\ slashMenuPosition = << a.position >>
  /\ slashMenuItems = FirstMatches(registry, a.query, 10)
  /\ selectedIndex = 0

Activated == lastEvent.activation # null

\* the last event was an activation that found the menu open with
\* candidates and whose query matches no command
ActivatedWithoutMatch ==
  /\ Activated
  /\ lastEvent.before.open
  /\ lastEvent.before.itemsLength > 0
  /\ FirstMatches(registry, lastEvent.activation[1].query, 10) = << >>

\* C4 as claimed: after an activation, from any prior state, the menu is
\* open on the match with selectedIndex = 0.
C4_AsClaimed == Activated => OpenOn(lastEvent.activation[1])

\* C4 amended: after an activation the menu is open on the match with
\* selectedIndex = 0, except when the menu was open with a non-empty
\* candidate list and the query of the match matches no command: then the
\* menu has closed and every field has its closed default.
C4_Activate ==
  Activated =>
    IF ActivatedWithoutMatch
    THEN ClosedDefaults
    ELSE OpenOn(lastEvent.activation[1])

\* C4 witness: an activation that found the menu open with a selection
\* moved away from the first candidate, and left it open
C4_Witness ==
  /\ Activated
  /\ lastEvent.before.open
  /\ lastEvent.before.sel > 0
  /\ OpenOn(lastEvent.activation[1])

\* C5: auto-close law: a query update that finds the menu open with
\* candidates and yields no candidate for a non-empty query closes the menu.
C5_AutoClose ==
  (ActivatedWithoutMatch /\ lastEvent.activation[1].query # << >>)
    => ~isSlashMenuOpen

\* C5 witness: such a query update has happened and the menu is closed
C5_Witness ==
  /\ ActivatedWithoutMatch
  /\ lastEvent.activation[1].query # << >>
  /\ lastEvent.before.itemsLength = 10
  /\ ~isSlashMenuOpen

\* C6: no settled state has the menu open with a non-empty query and no
\* candidate.
C6_NeverOpenWithoutCandidates ==
  ~(isSlashMenuOpen /\ slashMenuQuery # << >> /\ slashMenuItems = << >>)

\* C7: a closed menu has every field at its default, and the menu is closed
\* initially.
C7_ClosedIsReset ==
  /\ ~isSlashMenuOpen => ClosedDefaults
  /\ lastEvent.type = "init" => ~isSlashMenuOpen

\* C7 witness: an event found the menu open with candidates and closed it
C7_Witness ==
  /\ lastEvent.before.open
  /\ lastEvent.before.itemsLength > 0
  /\ ClosedDefaults

\* C8: whenever the menu is open with candidates, selectedIndex is an index
\* of the candidate list.
C8_SelectedIndexInRange ==
  (isSlashMenuOpen /\ slashMenuItems # << >>) =>
    (0 <= selectedIndex /\ selectedIndex < Len(slashMenuItems))

\* C8 witness: a query update shrank the candidate list below the index
\* that was selected
C8_Witness ==
  /\ Activated
  /\ isSlashMenuOpen
  /\ slashMenuItems # << >>
  /\ lastEvent.before.sel >= Len(slashMenuItems)

\* the index after `times` presses of ArrowDown on a list of length n
RECURSIVE RepeatArrowDown(_, _, _)
RepeatArrowDown(i, n, times) ==
  IF times = 0 THEN i
  ELSE RepeatArrowDown(arrowDownIndex(i, n), n, times - 1)

ArrowPressed(key) == lastEvent.type = "keydown" /\ lastEvent.key = key

\* C9: on an unchanged candidate list of length n >= 1, n presses of
\* ArrowDown lead from any index back to it; after one press, n - 1 more
\* lead back to the index the press started from.
C9_ArrowDownCycle ==
  LET n == Len(slashMenuItems) IN
  (isSlashMenuOpen /\ n >= 1) =>
    /\ \A i \in 0..(n - 1) : RepeatArrowDown(i, n, n) = i
    /\ ArrowPressed("ArrowDown") =>
         RepeatArrowDown(selectedIndex, n, n - 1) = lastEvent.before.sel

\* C9 witness: ArrowDown was pressed on a list of at least 3 candidates and
\* moved the selection
C9_Witness ==
  /\ isSlashMenuOpen
  /\ Len(slashMenuItems) >= 3
  /\ ArrowPressed("ArrowDown")
  /\ selectedIndex = lastEvent.before.sel + 1

\* C10: on a candidate list of length n >= 1, ArrowUp leads from index 0 to
\* n - 1 and from i > 0 to i - 1; ArrowDown leads from n - 1 to 0.
C10_ArrowSteps ==
  LET n == Len(slashMenuItems)
      i == lastEvent.before.sel
  IN (isSlashMenuOpen /\ n >= 1 /\ i \in 0..(n - 1)) =>
       /\ ArrowPressed("ArrowUp") =>
            selectedIndex = IF i = 0 THEN n - 1 ELSE i - 1
       /\ (ArrowPressed("ArrowDown") /\ i = n - 1) => selectedIndex = 0

\* C10 witness: ArrowUp pressed on the first of at least two candidates
C10_Witness ==
  /\ isSlashMenuOpen
  /\ Len(slashMenuItems) >= 2
  /\ ArrowPressed("ArrowUp")
  /\ lastEvent.before.sel = 0
  /\ selectedIndex = Len(slashMenuItems) - 1

(***************************************************************************)
(* Keys and execution.                                                     *)
(***************************************************************************)
\* the last event handed an item to handleCommandSelection
Executed == lastEvent.item # ""

ArrowOnEmptyList ==
  /\ ArrowPressed("ArrowUp") \/ ArrowPressed("ArrowDown")
  /\ lastEvent.before.open
  /\ lastEvent.before.itemsLength = 0

\* C11: ArrowUp or ArrowDown on an open menu with zero candidates leaves
\* selectedIndex as it was, a valid index and never the NaN of a remainder
\* by zero.
C11_MoveSelectionNoOpWhenEmpty ==
  ArrowOnEmptyList =>
    (selectedIndex = lastEvent.before.sel /\ selectedIndex # NaN)

\* C12: after a selected command was executed, by Enter or by click, every
\* field of the menu has its closed default and the close that returns the
\* focus has run, also when the deletion of the range throws.
C12_ExecutionAtomicity ==
  Executed =>
    /\ ClosedDefaults
    /\ \E i \in DOMAIN lastEvent.steps : lastEvent.steps[i] = "close"

\* C13: no exception leaves the handler of Enter or of a click on an entry.
C13_ErrorNotRethrown ==
  (lastEvent.type \in {"keydown", "click"}) => ~lastEvent.threw

\* a step of a user event: only the focus timer lowers pendingFocus
UserStep == pendingFocus' >= pendingFocus

\* a step in which a handler called handleCommandSelection and returned
ExecutionStep ==
  /\ UserStep
  /\ isSlashMenuOpen
  /\ lastEvent'.item # ""
  /\ ~lastEvent'.threw

\* the characters of the document, in document order
AllText(d) == textBetween(d, 0, docSize(d))

\* the trigger character and the query characters, as typed
TriggerText == << "/" >> \o slashMenuQuery

\* the typing that activated the menu has just happened: the text before
\* the caret ends with the trigger text
TriggerJustTyped ==
  LET text == caretBlock(doc).text
      n    == Len(TriggerText)
  IN /\ lastEvent.activation # null
     /\ isSlashMenuOpen
     /\ Len(text) >= n
     /\ SubSeq(text, Len(text) - n + 1, Len(text)) = TriggerText

\* C14: when a command is executed right after the trigger character and
\* zero or more query characters were typed, the document afterwards holds
\* neither the trigger character nor the query characters at the trigger
\* site: its text is the text before, without the trigger text.
C14_TriggerTextRemoved ==
  [][ (ExecutionStep /\ TriggerJustTyped) =>
        AllText(doc') =
          SubSeq(AllText(doc), 1, Len(AllText(doc)) - Len(TriggerText)) ]_vars

\* the range of step 1 of the execution protocol: the stored range,
\* extended left by one when the character before range.from is the trigger
\* character
ValidatedRange(d, range) ==
  LET tokens == docTokens(d) IN
  IF /\ range.from >= 1
     /\ range.from <= Len(tokens)
     /\ tokens[range.from].kind = "char"
     /\ tokens[range.from].val = "/"
  THEN [from |-> range.from - 1, to |-> range.to]
  ELSE range

\* the characters of the document outside the positions from..to
TextWithout(d, range) ==
  LET tokens == docTokens(d)
      kept   == { i \in DOMAIN tokens :
                    /\ tokens[i].kind = "char"
                    /\ ~(range.from < i /\ i <= range.to) }
  IN [k \in 1..Cardinality(kept) |-> tokens[KthSmallest(kept, k)].val]

MoveSelection(i, delta, n) == IF n = 0 THEN i ELSE (i + delta + n) % n

\* C16: while the menu is open, ArrowUp and ArrowDown move the selection by
\* -1 and +1 (cyclically, not at all on an empty list) and the event is
\* consumed: preventDefault and stopPropagation are called.
C16_ArrowsMoveAndAreConsumed ==
  LET n == lastEvent.before.itemsLength
      i == lastEvent.before.sel
  IN /\ (ArrowPressed("ArrowUp") /\ lastEvent.before.open) =>
          (lastEvent.consumed /\ selectedIndex = MoveSelection(i, 0 - 1, n))
     /\ (ArrowPressed("ArrowDown") /\ lastEvent.before.open) =>
          (lastEvent.consumed /\ selectedIndex = MoveSelection(i, 1, n))

EnterPressed == lastEvent.type = "keydown" /\ lastEvent.key = "Enter"

\* a step of the Enter key arriving at the open menu
EnterStep ==
  /\ UserStep
  /\ isSlashMenuOpen
  /\ lastEvent'.type = "keydown"
  /\ lastEvent'.key = "Enter"

\* C17: Enter on an open menu with candidates hands exactly the candidate
\* at selectedIndex to the execution, and applies no other command.
C17_EnterExecutesHighlighted ==
  [][ (EnterStep /\ slashMenuItems # << >>) =>
        /\ lastEvent'.item = slashMenuItems[selectedIndex + 1].id
        /\ Cardinality({ k \in DOMAIN lastEvent'.steps :
                           lastEvent'.steps[k] = "command" }) <= 1 ]_vars

\* C17 witness: Enter executed a candidate other than the first, after the
\* selection was moved to it
C17_Witness ==
  /\ EnterPressed
  /\ lastEvent.before.open
  /\ lastEvent.before.sel > 0
  /\ Executed
  /\ lastEvent.item # "heading1"
  /\ \E k \in DOMAIN lastEvent.steps : lastEvent.steps[k] = "command"

\* C18: Enter on an open menu with an empty candidate list closes the menu
\* and leaves the document as it is.
C18_EnterOnEmptyListCloses ==
  [][ (EnterStep /\ slashMenuItems = << >>) =>
        /\ ClosedDefaults'
        /\ doc' = doc
        /\ lastEvent'.item = ""
        /\ lastEvent'.steps = << "close" >> ]_vars

\* C18 witness: Enter found the menu open without candidates and closed it
C18_Witness ==
  /\ EnterPressed
  /\ lastEvent.before.open
  /\ lastEvent.before.itemsLength = 0
  /\ ~Executed
  /\ ClosedDefaults

\* C19: Enter on an open menu is always consumed (preventDefault and
\* stopPropagation), whether the list is empty, the execution succeeds or
\* the execution fails, so the engine never handles it.
C19_EnterAlwaysConsumed ==
  (EnterPressed /\ lastEvent.before.open) => lastEvent.consumed

\* C20: Escape on an open menu closes it with every field reset, leaves the
\* document unchanged, and the event is consumed.
C20_EscapeCloses ==
  [][ (UserStep /\ isSlashMenuOpen /\ lastEvent'.type = "keydown"
       /\ lastEvent'.key = "Escape") =>
        /\ ClosedDefaults'
        /\ doc' = doc
        /\ lastEvent'.consumed ]_vars

\* C20 witness: Escape found the menu open with candidates over a document
\* with text, and closed it
C20_Witness ==
  /\ ArrowPressed("Escape")
  /\ lastEvent.before.open
  /\ lastEvent.before.itemsLength > 0
  /\ lastEvent.consumed
  /\ AllText(doc) # << >>
  /\ ClosedDefaults

(***************************************************************************)
(* The keyboard router and the listeners.                                  *)
(***************************************************************************)
\* the fields of the menu state
MenuFields ==
  << isSlashMenuOpen, slashMenuQuery, slashMenuRange, slashMenuPosition,
     slashMenuItems, selectedIndex >>

\* C21: a key event is consumed only when the menu is open and the key is
\* ArrowUp, ArrowDown, Enter or Escape; any other key while the menu is
\* open and every key while it is closed is not consumed, and leaves the
\* menu state as it is unless the input rule activates on the typed text.
C21_RouterConsumesOnlyMenuKeys ==
  [][ UserStep =>
        /\ lastEvent'.consumed =>
              /\ isSlashMenuOpen
              /\ lastEvent'.type = "keydown"
              /\ lastEvent'.key \in MenuKeys
        /\ ( \/ lastEvent'.type \in {"text", "backspace"}
             \/ (lastEvent'.type = "keydown" /\ ~isSlashMenuOpen) ) =>
              /\ ~lastEvent'.consumed
              /\ lastEvent'.activation = null => MenuFields' = MenuFields
    ]_vars

\* C21 witness: Backspace arrived while the menu was open, was not
\* consumed, removed a character and left the menu open
C21_Witness ==
  /\ lastEvent.type = "backspace"
  /\ lastEvent.before.open
  /\ ~lastEvent.consumed
  /\ isSlashMenuOpen
  /\ AllText(doc) = << >>

FieldsOf(m) == << m.open, m.query, m.range, m.position, m.items, m.sel >>

\* C23: close is idempotent: from every reachable state, two calls of
\* closeSlashMenuAndFocusEditor in one handler leave the same menu state as
\* one call, before and after the render and the effects, and a call while
\* the menu is closed changes nothing; after a selection, which closes
\* twice, the menu has its closed defaults.
C23_CloseIdempotent ==
  LET c     == MenuState
      once  == closeSlashMenuAndFocusEditor(c)
      twice == closeSlashMenuAndFocusEditor(once)
  IN /\ FieldsOf(twice) = FieldsOf(once)
     /\ FieldsOf(Settle(registry, c, twice, TRUE))
          = FieldsOf(Settle(registry, c, once, TRUE))
     /\ ~isSlashMenuOpen => once = c
     /\ (Executed /\ ~lastEvent.threw) => ClosedDefaults

\* C23 witness: a selection closed the menu from handleCommandSelection and
\* from selectItem, on a menu that was open with candidates
C23_Witness ==
  /\ Executed
  /\ lastEvent.before.open
  /\ lastEvent.before.itemsLength > 1
  /\ lastEvent.steps = << "deleteRange", "command", "close", "close" >>
  /\ ClosedDefaults
  /\ closeSlashMenuAndFocusEditor(MenuState) = MenuState

(***************************************************************************)
(* Document changes while the menu is open.                                *)
(***************************************************************************)
\* the stored range lies within the current document
RangeInDocument ==
  /\ slashMenuRange # null
  /\ 0 <= slashMenuRange[1].from
  /\ slashMenuRange[1].from <= slashMenuRange[1].to
  /\ slashMenuRange[1].to <= docSize(doc)

\* C24: a replacement of the content by the embedding application while
\* the menu is open closes the menu, and the menu is never open with a
\* range that does not lie in the current document.
C24_OutsideMutationCloses ==
  /\ (lastEvent.type = "setContent" /\ lastEvent.before.open)
       => ~isSlashMenuOpen
  /\ isSlashMenuOpen => RangeInDocument

\* C25: a document change while the menu is open, after which the text
\* before the caret no longer matches the trigger pattern (whitespace typed
\* after the query, the trigger character removed with Backspace), closes
\* the menu.
C25_DeactivationCloses ==
  ( /\ lastEvent.type \in {"text", "backspace"}
    /\ lastEvent.before.open
    /\ slashCommandRegex(caretBlock(doc).text) = null )
    => ~isSlashMenuOpen

\* the stored range lies in the document and the trigger text (the trigger
\* character and the query) stands at its start
RangeOnTriggerText ==
  /\ RangeInDocument
  /\ textBetween(doc, slashMenuRange[1].from,
                 slashMenuRange[1].from + Len(TriggerText)) = TriggerText

\* a step in which a candidate was selected, by Enter or by click
SelectionStep ==
  /\ UserStep
  /\ isSlashMenuOpen
  /\ lastEvent'.item # ""

\* C26: when a candidate is selected while the stored range no longer
\* stands on the trigger text of the live document, nothing of the document
\* is changed (neither deletion nor command) and the menu closes.
C26_StaleRangeNoMutation ==
  [][ (SelectionStep /\ ~RangeOnTriggerText) =>
        (doc' = doc /\ ClosedDefaults') ]_vars

(***************************************************************************)
(* Query updates and the selection.                                        *)
(***************************************************************************)
\* a step in which a match with another query arrived while the menu was
\* open with candidates, and left it open
QueryUpdateStep ==
  /\ UserStep
  /\ isSlashMenuOpen
  /\ slashMenuItems # << >>
  /\ lastEvent'.activation # null
  /\ slashMenuQuery' # slashMenuQuery
  /\ isSlashMenuOpen'

\* C27: a query update on the open menu sets selectedIndex to 0 only when
\* the candidate sequence changes; when the new query gives the same
\* candidate sequence, selectedIndex is kept.
C27_SelectionKeptOnSameCandidates ==
  [][ QueryUpdateStep =>
        selectedIndex' = (IF slashMenuItems' = slashMenuItems
                          THEN selectedIndex
                          ELSE 0) ]_vars

(***************************************************************************)
(* The trigger detector.                                                   *)
(***************************************************************************)
\* a character was typed and reached the input rule
Typed == lastEvent.type = "text" /\ ~lastEvent.consumed

\* characters that may stand before the trigger character
BoundaryChars == { " ", "\t", "nbsp", "\n" }

\* i is the place of a trigger character in text that stands at the start
\* of the text or after whitespace, with only word characters after it
TriggerAt(text, i) ==
  /\ i \in DOMAIN text
  /\ text[i] = "/"
  /\ (i = 1 \/ text[i - 1] \in BoundaryChars)
  /\ \A j \in (i + 1)..Len(text) : text[j] \in WordChars

\* C28: typing activates the menu only when the text before the caret has
\* the trigger character at the start of the block or right after
\* whitespace, and only word characters between it and the caret (and in a
\* paragraph it then does activate); a trigger character after a
\* non-whitespace character, or followed by a non-word character or by
\* whitespace, never activates.
C28_TriggerPattern ==
  Typed =>
    LET b == caretBlock(doc) IN
    (lastEvent.activation # null)
      <=> (b.type # "codeBlock" /\ \E i \in DOMAIN b.text : TriggerAt(b.text, i))

\* C28 witness: a word character typed after tab and trigger character
\* activated the menu
C28_Witness ==
  /\ Typed
  /\ lastEvent.activation # null
  /\ caretBlock(doc).text = << "\t", "/", "a" >>

\* C29: for every match the range given to the menu starts at the trigger
\* character, after the boundary whitespace whatever its kind, and the
\* query is the run of word characters after the trigger character.
C29_RangeStartsAtTrigger ==
  (Typed /\ lastEvent.activation # null) =>
    LET text  == caretBlock(doc).text
        i     == LastSlash(text)
        start == caretPos(doc) - Len(text)
    IN /\ lastEvent.activation[1].range.from = start + i - 1
       /\ lastEvent.activation[1].query = SubSeq(text, i + 1, Len(text))

\* C30: the range that is deleted is the stored range, with from moved left
\* by exactly one only when the character right before range.from is the
\* trigger character; at the start of a block and after any other
\* character it is the stored range, and does not reach over the boundary
\* of the block.
C30_RevalidatedRange ==
  [][ SelectionStep =>
        fullRangeOf(doc, slashMenuRange[1])
          = ValidatedRange(doc, slashMenuRange[1]) ]_vars

(***************************************************************************)
(* A command function that throws.                                         *)
(***************************************************************************)
\* a step in which a candidate was selected and its command function threw
\* after the deletion of the range had been dispatched
CommandThrewStep ==
  /\ SelectionStep
  /\ lastEvent'.threw
  /\ lastEvent'.steps = << "deleteRange" >>

\* C31: when the command function throws after the deletion of the range,
\* the deletion stays and nothing else is changed: the document after the
\* event is the document before it with the validated range deleted.
C31_DeletionNotRolledBack ==
  [][ CommandThrewStep =>
        LET range == ValidatedRange(doc, slashMenuRange[1])
        IN << doc' >> = deleteRange(doc, range.from, range.to) ]_vars

(***************************************************************************)
(* The focus requests of closeSlashMenuAndFocusEditor.                     *)
(***************************************************************************)
\* a step of a user event that closes the open menu
ClosingStep == UserStep /\ isSlashMenuOpen /\ ~isSlashMenuOpen'

\* C32: every close of the open menu (Escape, Enter, click on an entry,
\* click outside, auto-close) requests the focus, and a call of close that
\* finds the menu already closed requests none: an event that closes the
\* menu leaves exactly one focus request to run, any other event none.
C32_OneFocusPerClose ==
  [][ UserStep =>
        pendingFocus' - pendingFocus = (IF ClosingStep THEN 1 ELSE 0) ]_vars

(***************************************************************************)
(* Mousedown while the menu is open.                                       *)
(***************************************************************************)
\* a step of a mousedown arriving at the open menu
MouseDownStep ==
  /\ UserStep
  /\ isSlashMenuOpen
  /\ lastEvent'.type = "mousedown"

\* the fields of the menu state after the primed variables
MenuFieldsNext ==
  << isSlashMenuOpen', slashMenuQuery', slashMenuRange', slashMenuPosition',
     slashMenuItems', selectedIndex' >>

\* C33: while the menu is open, a mousedown outside the menu container
\* closes the menu with the reset of closeSlashMenuAndFocusEditor, the one
\* Escape uses (closed defaults, one focus request), and a mousedown inside
\* the container leaves the menu state, the document and the focus requests
\* as they are.
C33_MouseDownOutsideCloses ==
  [][ MouseDownStep =>
        IF lastEvent'.key = "outside"
        THEN /\ ClosedDefaults'
             /\ MenuFieldsNext
                  = FieldsOf(Settle(registry, MenuState,
                                    closeSlashMenuAndFocusEditor(MenuState),
                                    TRUE))
             /\ pendingFocus' = pendingFocus + 1
             /\ doc' = doc
        ELSE /\ MenuFieldsNext = MenuFields
             /\ pendingFocus' = pendingFocus
             /\ doc' = doc ]_vars

\* C33 witness: a mousedown outside the container found the menu open with
\* candidates for a query and closed it, and the focus is still to return
C33_Witness ==
  /\ lastEvent.type = "mousedown"
  /\ lastEvent.key = "outside"
  /\ lastEvent.before.open
  /\ lastEvent.before.itemsLength > 0
  /\ AllText(doc) # << >>
  /\ ClosedDefaults
  /\ pendingFocus = 1

PatternTyped ==
  /\ Typed
  /\ \E i \in DOMAIN caretBlock(doc).text : TriggerAt(caretBlock(doc).text, i)

\* the query of a text that matches the trigger pattern
QueryOfText(text) == SubSeq(text, LastSlash(text) + 1, Len(text))

\* C36 as claimed: outside a code block, every text input after which the
\* text before the caret matches the trigger pattern leaves the menu open
\* with the query of that text, whatever the state of the menu before.
C36_AsClaimed ==
  (PatternTyped /\ caretBlock(doc).type # "codeBlock") =>
    /\ isSlashMenuOpen
    /\ slashMenuQuery = QueryOfText(caretBlock(doc).text)

\* C36 amended: outside a code block, every text input after which the
\* text before the caret matches the trigger pattern leaves the menu open
\* with the query of that text, whether the menu was open or closed before,
\* except when it was open with candidates and the query matches no
\* command: then the menu has closed.
C36_ActivationIgnoresMenuState ==
  (PatternTyped /\ caretBlock(doc).type # "codeBlock") =>
    LET query == QueryOfText(caretBlock(doc).text) IN
    IF /\ lastEvent.before.open
       /\ lastEvent.before.itemsLength > 0
       /\ FirstMatches(registry, query, 10) = << >>
    THEN ClosedDefaults
    ELSE isSlashMenuOpen /\ slashMenuQuery = query

\* C36 witness: the trigger word "/_" stood before the caret with the menu
\* closed (as after Escape, a mousedown outside or the auto-close on "_"),
\* and the next word character opened the menu with the query "_a"
C36_Witness ==
  /\ PatternTyped
  /\ ~lastEvent.before.open
  /\ caretBlock(doc).type = "paragraph"
  /\ caretBlock(doc).text = << "/", "_", "a" >>
  /\ isSlashMenuOpen
  /\ slashMenuQuery = << "_", "a" >>

(***************************************************************************)
(* A click on an entry of the menu.                                        *)
(***************************************************************************)
\* a step of a click on entry `index` of the open menu
ClickStep(index) ==
  /\ UserStep
  /\ isSlashMenuOpen
  /\ lastEvent'.type = "click"
  /\ lastEvent'.key = ToString(index)

\* C37: a click on entry index of the menu, 0 <= index < number of
\* candidates, executes exactly the candidate at index (its command is
\* applied once, no other) and then the menu is closed; selectItem with an
\* index outside that range changes neither the document nor the menu
\* state.
C37_SelectCandidate ==
  [][ /\ \A index \in 0..(Len(slashMenuItems) - 1) :
           ClickStep(index) =>
             /\ lastEvent'.item = slashMenuItems[index + 1].id
             /\ Cardinality({ k \in DOMAIN lastEvent'.steps :
                                lastEvent'.steps[k] = "command" }) = 1
             /\ ClosedDefaults'
      /\ \A index \in { 0 - 1, Len(slashMenuItems), Len(slashMenuItems) + 1 } :
           LET r == selectItem(doc, MenuState, index)
           IN r.doc = doc /\ r.m = MenuState /\ r.executed = "" ]_vars

(***************************************************************************)
(* The retries of the API client.                                          *)
(***************************************************************************)
\* the error caught last
LastError == client.error[1]

Finished == client.phase \in { "returned", "thrown" }

RateLimitedWithAttemptsLeft ==
  /\ client.phase \in { "delaying", "thrown" }
  /\ client.error # null
  /\ \/ LastError.status = 429
     \/ LastError.status = 403
  /\ LastError.rateLimitInfo # null
  /\ resetTimeOf(LastError) * 1000 - client.now < 60000
  /\ client.attempt < client.maxRetries

\* C39: after a rate-limit failure whose reset time is less than one minute
\* away, with attempts left, the client delays until the reset time (not
\* at all when it has passed already) and then makes the next attempt.
C39_WaitsForRateLimitReset ==
  RateLimitedWithAttemptsLeft =>
    /\ client.phase = "delaying"
    /\ client.wake >= resetTimeOf(LastError) * 1000
    /\ (resetTimeOf(LastError) * 1000 > client.now)
         => client.wake = resetTimeOf(LastError) * 1000

====
